---- MODULE Spec2Model ----
(***************************************************************************)
(* A model of fsocks/tunnel_client.py: the tunnel client that negotiates   *)
(* one tunnel with the remote peer (start_tunnel), accepts local SOCKS5    *)
(* connections (_accept_user), runs one task per local connection          *)
(* (_handle_user, _pipe_user) and one task reading the tunnel              *)
(* (_handle_tunnel).  All tasks run on one event loop: a step of the model *)
(* is the code a task runs between two suspension points.                  *)
(***************************************************************************)
EXTENDS Integers, Sequences, FiniteSets, TLC

\* Bounds of the model.
MaxConns == 2       \* local connections accepted during a run

\* Python's None (User.remote_id, dict.get's default).
None == -1

Conns == 1..MaxConns          \* the User objects, in the order they are accepted
Fds == 1..MaxConns            \* socket descriptors the platform hands out
RemoteIds == 1..MaxConns      \* ids the remote peer hands out, one per connection
Timestamps == {1, 2}          \* hello_response.timestamp
Fuzzes == {"f1", "f2"}        \* shake_response.fuzz
NoFuzz == "None"              \* self.fuzz before the handshake ends
Cipher == "cipher"            \* self.cipher, the bootstrap AES256CBC

VARIABLES
    mainpc,          \* where main()/start()/start_tunnel() stands, or the exit status
    fuzz,            \* self.fuzz
    hello_response,  \* start_tunnel's local: the packet read after Hello
    shake_response,  \* start_tunnel's local: the final HandShake read
    written,         \* the last writer.write(): which writer, which task, what data
    tpc,             \* where the task running _handle_tunnel stands
    packet,          \* _handle_tunnel's local: the packet read last
    tuser,           \* _handle_tunnel's local `user` while it awaits the drain
    users,           \* self.users: user_id -> User
    ustate,          \* per User: where its task (_handle_user) stands
    user_id,         \* per User: user_id (the socket descriptor)
    remote_id,       \* per User: remote_id
    aborted          \* per User: writer.transport.abort() was called

vars == <<mainpc, fuzz, hello_response, shake_response, written, tpc, packet,
          tuser, users, ustate, user_id, remote_id, aborted>>

tunnelVars == <<tpc, packet, tuser>>
startVars == <<mainpc, fuzz, hello_response, shake_response>>

\* A frame on the tunnel: a packet and the transform it is wrapped with.
Frame(mtype, src, dst, body, via) ==
    [mtype |-> mtype, src |-> src, dst |-> dst, body |-> body, via |-> via]

NoPacket == Frame("none", 0, 0, 0, NoFuzz)

\* What start_tunnel's two locals hold before they are read.
NoHello == [mtype |-> "none", timestamp |-> 0, via |-> NoFuzz]
NoShake == [mtype |-> "none", fuzz |-> NoFuzz, via |-> NoFuzz]

\* protocol.Hello().to_packet(self.cipher)
Hello == Frame("HELLO", 0, 0, 0, Cipher)

\* A HandShake that does not carry the timestamp it is given.
HandShakeNoEcho(timestamp) == Frame("HANDSHAKE", 0, 0, 0, Cipher)

\* protocol.HandShake(timestamp=...).to_packet(self.cipher)
HandShake(timestamp) == Frame("HANDSHAKE", 0, 0, timestamp, Cipher)

\* protocol.Request(user.user_id, 0, msg).to_packet(self.fuzz)
Request(c) == Frame("REQUEST", user_id[c], 0, 0, fuzz)

\* A Relaying packet addressed like a Request: dst 0 instead of the remote_id.
RelayingUnaddressed(c, data) == Frame("RELAYING", user_id[c], 0, data, fuzz)

\* protocol.Relaying(user.user_id, user.remote_id, data).to_packet(self.fuzz)
Relaying(c, data) == Frame("RELAYING", user_id[c], remote_id[c], data, fuzz)

\* protocol.Close(user.user_id).to_packet(self.fuzz)
Close(c) == Frame("CLOSE", user_id[c], 0, 0, fuzz)

\* protocol.async_read_packet(reader, self.fuzz): the packet read, unwrapped with
\* self.fuzz.
Inbound(mtype, src, dst) == Frame(mtype, src, dst, 0, fuzz)

\* The inner SOCKS reply of a Reply packet is SUCCEEDED (0) or a failure code.
Failure == 1

\* The tasks and the writers.  Task: a User's task, the tunnel task or start_tunnel.
\* Writer: a User's writer or the tunnel writer.
Tunnel == 0
Main == None

\* A write that puts only the header of the frame on the tunnel, the payload
\* being left for a later write.
WriteTunnelHeader(by, frame) ==
    written' = [writer |-> Tunnel, by |-> by, data |-> [frame EXCEPT !.body = None]]

\* writer.write(frame) on the tunnel writer, by task `by`.
WriteTunnel(by, frame) == written' = [writer |-> Tunnel, by |-> by, data |-> frame]

\* writer.write(data) on the writer of User c, by task `by`.
WriteLocal(by, c, data) == written' = [writer |-> c, by |-> by, data |-> data]

\* Nothing was written yet.
NoWrite == [writer |-> None, by |-> None, data |-> NoPacket]

\* User.established
established(c) == remote_id[c] # None

\* The task of User c has started and has not ended.
Running(c) == ustate[c] \in {"greeting", "request", "relaying"}

\* The socket of User c is open: it holds its descriptor.
Open(c) == ustate[c] # "unborn" /\ ~aborted[c]

\* The descriptor the platform gives the next accepted socket: the lowest free one.
FreeFd == CHOOSE f \in Fds :
            /\ \A c \in Conns : Open(c) => user_id[c] # f
            /\ \A g \in Fds : g < f => \E c \in Conns : Open(c) /\ user_id[c] = g

\* A lookup that falls back on some registered User when the id is unknown.
get_user_fallback(uid) ==
    IF uid \in DOMAIN users /\ users[uid] # None
      THEN users[uid]
      ELSE IF \E f \in Fds : users[f] # None
             THEN users[CHOOSE f \in Fds : users[f] # None]
             ELSE None

\* TunnelClient._get_user
get_user(uid) == IF uid \in DOMAIN users THEN users[uid] ELSE None

\* _handle_tunnel, REPLY: user_id = packet.dst; user = self._get_user(user_id)
ReplyUser(p) == get_user(p.dst)

\* A Relaying packet looked up under its src.
RelayingUserBySrc(p) == get_user(p.src)

\* _handle_tunnel, RELAYING: user_id = packet.dst; user = self._get_user(user_id)
RelayingUser(p) == get_user(p.dst)

\* _handle_tunnel, CLOSE: user_id = packet.src; user = self._get_user(user_id)
CloseUser(p) == get_user(p.src)

\* A close that aborts the transport and keeps remote_id.
User_close_keep(c) ==
    /\ aborted' = [aborted EXCEPT ![c] = TRUE]
    /\ UNCHANGED remote_id

\* User.close
User_close(c) ==
    /\ remote_id' = [remote_id EXCEPT ![c] = None]
    /\ aborted' = [aborted EXCEPT ![c] = TRUE]

\* A delete that removes the entry under the User's remote_id.
delete_user_by_remote(c) ==
    /\ users' = [f \in Fds |-> IF f = remote_id[c] THEN None ELSE users[f]]
    /\ User_close(c)

\* TunnelClient._delete_user
delete_user(c) ==
    /\ User_close(c)
    /\ users' = [f \in Fds |-> IF f = user_id[c] THEN None ELSE users[f]]

\* A close path that writes Close whether or not the User is established.
user_closed_always(c) ==
    /\ WriteTunnel(c, Close(c))
    /\ aborted' = [aborted EXCEPT ![c] = TRUE]

\* TunnelClient._user_closed
user_closed(c) ==
    /\ IF established(c) THEN WriteTunnel(c, Close(c)) ELSE UNCHANGED written
    /\ aborted' = [aborted EXCEPT ![c] = TRUE]

\* A listener started before the negotiation.
ListeningEarly == mainpc \in {"init", "hello_sent", "shake_sent", "established", "listening"}

\* start(): the SOCKS listener is started once start_tunnel has completed.
Listening == mainpc = "listening"

\* The tunnel task exists and the process has not exited.
TunnelUp == mainpc \in {"established", "listening"}

\* The event loop runs the session tasks: in main()'s run_forever and in stop()'s
\* run_until_complete.
LoopRuns == mainpc \in {"listening", "stopping"}

\* sys.exit(status): the process ends and its objects with it.
sys_exit(status) ==
    /\ mainpc' = status
    /\ fuzz' = NoFuzz
    /\ hello_response' = NoHello
    /\ shake_response' = NoShake
    /\ written' = NoWrite
    /\ tpc' = "off"
    /\ packet' = NoPacket
    /\ tuser' = None
    /\ users' = [f \in Fds |-> None]
    /\ ustate' = [c \in Conns |-> "unborn"]
    /\ user_id' = [c \in Conns |-> None]
    /\ remote_id' = [c \in Conns |-> None]
    /\ aborted' = [c \in Conns |-> FALSE]

Init ==
    /\ mainpc = "init"
    /\ fuzz = NoFuzz
    /\ hello_response = NoHello
    /\ shake_response = NoShake
    /\ written = NoWrite
    /\ tpc = "off"
    /\ packet = NoPacket
    /\ tuser = None
    /\ users = [f \in Fds |-> None]
    /\ ustate = [c \in Conns |-> "unborn"]
    /\ user_id = [c \in Conns |-> None]
    /\ remote_id = [c \in Conns |-> None]
    /\ aborted = [c \in Conns |-> FALSE]

(***************************************************************************)
(* start() and start_tunnel()                                              *)
(***************************************************************************)

\* start_tunnel: open the connection and write Hello.
SendHello ==
    /\ mainpc = "init"
    /\ WriteTunnel(Main, Hello)
    /\ mainpc' = "hello_sent"
    /\ UNCHANGED <<fuzz, hello_response, shake_response, tunnelVars, users, ustate,
                   user_id, remote_id, aborted>>

\* start_tunnel: read the response to Hello, write HandShake with its timestamp.
ReadHello ==
    /\ mainpc = "hello_sent"
    /\ \E ts \in Timestamps :
         hello_response' = [mtype |-> "HELLO", timestamp |-> ts, via |-> Cipher]
    /\ WriteTunnel(Main, HandShake(hello_response'.timestamp))
    /\ mainpc' = "shake_sent"
    /\ UNCHANGED <<fuzz, shake_response, tunnelVars, users, ustate,
                   user_id, remote_id, aborted>>

\* start_tunnel: read the final HandShake, install its fuzz, start the tunnel task.
ReadHandShake ==
    /\ mainpc = "shake_sent"
    /\ \E fz \in Fuzzes :
         shake_response' = [mtype |-> "HANDSHAKE", fuzz |-> fz, via |-> Cipher]
    /\ fuzz' = shake_response'.fuzz
    /\ tpc' = "read"
    /\ mainpc' = "established"
    /\ UNCHANGED <<hello_response, written, packet, tuser, users, ustate,
                   user_id, remote_id, aborted>>

\* start(): any exception of start_tunnel ends the process with status 1.
NegotiateFailed ==
    /\ mainpc \in {"init", "hello_sent", "shake_sent"}
    /\ sys_exit("exit1")

\* start_tunnel: the peer sends nothing more and keeps the connection open; the
\* read awaits with no timeout, and no exception is ever raised.
PeerSilent ==
    /\ mainpc \in {"hello_sent", "shake_sent"}
    /\ mainpc' = "hung"
    /\ UNCHANGED <<fuzz, hello_response, shake_response, written, tunnelVars, users,
                   ustate, user_id, remote_id, aborted>>

\* start(): start the SOCKS server.
StartServer ==
    /\ mainpc = "established"
    /\ mainpc' = "listening"
    /\ UNCHANGED <<fuzz, hello_response, shake_response, written, tunnelVars, users,
                   ustate, user_id, remote_id, aborted>>

(***************************************************************************)
(* The local side: _accept_user, _handle_user, _pipe_user                  *)
(***************************************************************************)

\* _accept_user: a new User, registered under its socket's descriptor.
AcceptUser(c) ==
    /\ Listening
    /\ ustate[c] = "unborn"
    /\ \A d \in Conns : d < c => ustate[d] # "unborn"
    /\ user_id' = [user_id EXCEPT ![c] = FreeFd]
    /\ users' = [users EXCEPT ![user_id'[c]] = c]
    /\ ustate' = [ustate EXCEPT ![c] = "greeting"]
    /\ UNCHANGED <<startVars, written, tunnelVars, remote_id, aborted>>

\* _handle_user: the greeting is read and ignored, the server greeting written.
UserGreeting(c) ==
    /\ LoopRuns
    /\ ustate[c] = "greeting"
    /\ WriteLocal(c, c, Frame("GREETING", 0, 0, 0, NoFuzz))
    /\ ustate' = [ustate EXCEPT ![c] = "request"]
    /\ UNCHANGED <<startVars, tunnelVars, users, user_id, remote_id, aborted>>

\* _handle_user: a read raises ConnectionResetError, which nothing there catches.
UserReset(c) ==
    /\ LoopRuns
    /\ ustate[c] \in {"greeting", "request"}
    /\ ustate' = [ustate EXCEPT ![c] = "crashed"]
    /\ UNCHANGED <<startVars, written, tunnelVars, users, user_id, remote_id, aborted>>

\* _handle_user: the stream ends inside the request (IncompleteReadError).
UserIncomplete(c) ==
    /\ LoopRuns
    /\ ustate[c] = "request"
    /\ delete_user(c)
    /\ ustate' = [ustate EXCEPT ![c] = "deleted"]
    /\ UNCHANGED <<startVars, written, tunnelVars, user_id>>

\* _handle_user: a command other than CONNECT.
UserNotConnect(c) ==
    /\ LoopRuns
    /\ ustate[c] = "request"
    /\ WriteLocal(c, c, Frame("COMMAND_NOT_SUPPORTED", 0, 0, 0, NoFuzz))
    /\ ustate' = [ustate EXCEPT ![c] = "rejected"]
    /\ UNCHANGED <<startVars, tunnelVars, users, user_id, remote_id, aborted>>

\* _handle_user: CONNECT; the Request is written to the tunnel.
UserConnect(c) ==
    /\ LoopRuns
    /\ ustate[c] = "request"
    /\ WriteTunnel(c, Request(c))
    /\ ustate' = [ustate EXCEPT ![c] = "relaying"]
    /\ UNCHANGED <<startVars, tunnelVars, users, user_id, remote_id, aborted>>

\* _pipe_user: a chunk is read; the assertion, then the Relaying packet.
UserData(c) ==
    /\ LoopRuns
    /\ ustate[c] = "relaying"
    /\ IF established(c)
         THEN /\ WriteTunnel(c, Relaying(c, 1))
              /\ UNCHANGED ustate
         ELSE /\ ustate' = [ustate EXCEPT ![c] = "crashed"]
              /\ UNCHANGED written
    /\ UNCHANGED <<startVars, tunnelVars, users, user_id, remote_id, aborted>>

\* _pipe_user: end of stream or reset.
UserEnd(c) ==
    /\ LoopRuns
    /\ ustate[c] = "relaying"
    /\ user_closed(c)
    /\ ustate' = [ustate EXCEPT ![c] = "closed"]
    /\ UNCHANGED <<startVars, tunnelVars, users, user_id, remote_id>>

(***************************************************************************)
(* The tunnel side: _handle_tunnel                                         *)
(***************************************************************************)

\* The reader is at `await async_read_packet`.
CanRead == TunnelUp /\ tpc = "read"

\* A Reply: forwarded to the user found under dst; then the drain is awaited.
TunnelReply(src, dst) ==
    /\ CanRead
    /\ packet' = Inbound("REPLY", src, dst)
    /\ LET user == ReplyUser(packet') IN
         IF user = None
           THEN UNCHANGED <<tpc, tuser, written>>
           ELSE /\ WriteLocal(Tunnel, user, packet')
                /\ tuser' = user
                /\ tpc' = "reply_drain"
    /\ UNCHANGED <<startVars, users, ustate, user_id, remote_id, aborted>>

\* A Reply whose inner SOCKS message reports a failure of the remote connect: the
\* handler does not look at packet.msg, so it is handled like any Reply.
TunnelReplyFailure(src, dst) ==
    /\ CanRead
    /\ packet' = [Inbound("REPLY", src, dst) EXCEPT !.body = Failure]
    /\ LET user == ReplyUser(packet') IN
         IF user = None
           THEN UNCHANGED <<tpc, tuser, written>>
           ELSE /\ WriteLocal(Tunnel, user, packet')
                /\ tuser' = user
                /\ tpc' = "reply_drain"
    /\ UNCHANGED <<startVars, users, ustate, user_id, remote_id, aborted>>

\* After the drain (also when it raised ConnectionResetError, which safe_write
\* swallows): user.remote_id = remote_id.
TunnelReplyDone ==
    /\ TunnelUp
    /\ tpc = "reply_drain"
    /\ remote_id' = [remote_id EXCEPT ![tuser] = packet.src]
    /\ tuser' = None
    /\ tpc' = "read"
    /\ UNCHANGED <<startVars, written, packet, users, ustate, user_id,
                   aborted>>

\* A Relaying packet: its payload is written to the user found under dst.
TunnelRelaying(src, dst) ==
    /\ CanRead
    /\ packet' = Inbound("RELAYING", src, dst)
    /\ LET user == RelayingUser(packet') IN
         IF user = None
           THEN UNCHANGED written
           ELSE WriteLocal(Tunnel, user, packet')
    /\ UNCHANGED <<startVars, tpc, tuser, users, ustate, user_id, remote_id,
                   aborted>>

\* The drain after forwarding a Reply raises an error other than
\* ConnectionResetError (BrokenPipeError, TimeoutError: the local connection
\* broke, it was not aborted here): safe_write lets it through and the task ends.
TunnelReplyError ==
    /\ TunnelUp
    /\ tpc = "reply_drain"
    /\ ~aborted[tuser]
    /\ tpc' = "done"
    /\ packet' = NoPacket
    /\ tuser' = None
    /\ UNCHANGED <<startVars, written, users, ustate, user_id, remote_id, aborted>>

\* A Relaying packet whose write to the user's connection fails the same way.
TunnelRelayingError(src, dst) ==
    /\ CanRead
    /\ LET user == RelayingUser(Inbound("RELAYING", src, dst)) IN
         /\ user # None
         /\ ~aborted[user]
         /\ WriteLocal(Tunnel, user, Inbound("RELAYING", src, dst))
    /\ tpc' = "done"
    /\ packet' = NoPacket
    /\ tuser' = None
    /\ UNCHANGED <<startVars, users, ustate, user_id, remote_id, aborted>>

\* async_read_packet raises (read error, end of stream, decode failure): nothing
\* in _handle_tunnel catches it and the task ends.
TunnelDied ==
    /\ CanRead
    /\ tpc' = "done"
    /\ packet' = NoPacket
    /\ tuser' = None
    /\ UNCHANGED <<startVars, written, users, ustate, user_id, remote_id, aborted>>

\* main(): KeyboardInterrupt in run_forever; stop() closes the SOCKS server,
\* cancels the tunnel task and runs the loop until the tasks are done.
Stop ==
    /\ mainpc = "listening"
    /\ mainpc' = "stopping"
    /\ tpc' = "done"
    /\ packet' = NoPacket
    /\ tuser' = None
    /\ UNCHANGED <<fuzz, hello_response, shake_response, written, users, ustate,
                   user_id, remote_id, aborted>>

\* start_tunnel's done callback of the tunnel task: sys.exit(2), whatever ended
\* the task.
tunnel_done ==
    /\ mainpc \in {"established", "listening", "stopping"}
    /\ tpc = "done"
    /\ sys_exit("exit2")

\* A Close: the user found under src is deleted.
TunnelClose(src) ==
    /\ CanRead
    /\ packet' = Inbound("CLOSE", src, 0)
    /\ LET user == CloseUser(packet') IN
         IF user = None
           THEN UNCHANGED <<users, remote_id, aborted>>
           ELSE delete_user(user)
    /\ UNCHANGED <<startVars, written, tpc, tuser, ustate, user_id>>

\* Any other packet is logged and skipped.
TunnelUnknown ==
    /\ CanRead
    /\ \E m \in {"HELLO", "HANDSHAKE"} : packet' = Inbound(m, 0, 0)
    /\ UNCHANGED <<startVars, written, tpc, tuser, users, ustate, user_id, remote_id,
                   aborted>>

Next ==
    \/ SendHello
    \/ ReadHello
    \/ ReadHandShake
    \/ NegotiateFailed
    \/ PeerSilent
    \/ StartServer
    \/ \E c \in Conns : AcceptUser(c)
    \/ \E c \in Conns : UserGreeting(c)
    \/ \E c \in Conns : UserReset(c)
    \/ \E c \in Conns : UserIncomplete(c)
    \/ \E c \in Conns : UserNotConnect(c)
    \/ \E c \in Conns : UserConnect(c)
    \/ \E c \in Conns : UserData(c)
    \/ \E c \in Conns : UserEnd(c)
    \/ \E src \in RemoteIds, dst \in Fds : TunnelReply(src, dst)
    \/ \E src \in RemoteIds, dst \in Fds : TunnelReplyFailure(src, dst)
    \/ TunnelReplyDone
    \/ TunnelReplyError
    \/ \E src \in RemoteIds, dst \in Fds : TunnelRelayingError(src, dst)
    \/ TunnelDied
    \/ Stop
    \/ tunnel_done
    \/ \E src \in RemoteIds, dst \in Fds : TunnelRelaying(src, dst)
    \/ \E src \in Fds : TunnelClose(src)
    \/ TunnelUnknown

Spec == Init /\ [][Next]_vars

(***************************************************************************)
(* Properties                                                              *)
(***************************************************************************)

SessionTypes == {"REQUEST", "RELAYING", "CLOSE"}

\* The write of this step, if any, is a write of `data` to `writer` by task `by`.
Wrote(writer, by, data) == written' = [writer |-> writer, by |-> by, data |-> data]

\* C1 Demultiplexing: when the tunnel reader handles a Relaying packet whose dst
\* is the id under which session A is registered, the packet is written to A's
\* writer and to no other; with no session under dst nothing is written.  This
\* holds in every reachable state, also after an id was released and registered
\* again for a later connection.
Demultiplexing ==
    [][\A src \in RemoteIds, dst \in Fds :
         TunnelRelaying(src, dst) =>
            IF users[dst] = None
              THEN written' = written
              ELSE /\ written'.writer = users[dst]
                   /\ user_id[written'.writer] = dst
                   /\ written'.by = Tunnel
                   /\ written'.data.mtype = "RELAYING"
                   /\ written'.data.src = src
                   /\ written'.data.dst = dst]_vars

\* Two sessions are registered and established, and a Relaying packet for the
\* second was delivered to the second.
DemultiplexingWitness ==
    /\ users[1] = 1 /\ users[2] = 2
    /\ established(1) /\ established(2)
    /\ packet.mtype = "RELAYING" /\ packet.dst = 2 /\ packet.src = 1
    /\ written = [writer |-> 2, by |-> Tunnel, data |-> packet]

\* C2 Close propagation: handling an inbound Close whose src is the id of
\* session X removes X from the table and leaves every other session's entry
\* and remote_id as they were; a Close whose src is in no entry changes nothing;
\* in both cases the reader goes on to the next packet.
ClosePropagation ==
    [][\A src \in Fds :
         TunnelClose(src) =>
            /\ tpc' = "read"
            /\ IF users[src] = None
                 THEN UNCHANGED <<users, remote_id, aborted, ustate, user_id, written,
                                  tuser, mainpc, fuzz>>
                 ELSE /\ users' = [users EXCEPT ![src] = None]
                      /\ \A c \in Conns \ {users[src]} :
                            /\ remote_id'[c] = remote_id[c]
                            /\ aborted'[c] = aborted[c]
                      /\ aborted'[users[src]]
                      /\ UNCHANGED <<ustate, user_id, written>>]_vars

\* An inbound Close removed a session whose task still runs, and the other
\* session is still registered and established.
ClosePropagationWitness ==
    \E x, y \in Conns :
       /\ x # y
       /\ packet.mtype = "CLOSE" /\ packet.src = user_id[x]
       /\ Running(x) /\ aborted[x] /\ users[user_id[x]] = None
       /\ Running(y) /\ users[user_id[y]] = y /\ established(y) /\ ~aborted[y]

\* C3 Handshake ordering: until the handshake is ESTABLISHED (fuzz installed) no
\* Request, Relaying or Close was written to the tunnel, the tunnel reader has
\* dispatched no packet, and no local connection was accepted; whatever session
\* frame is written is wrapped with an installed fuzz.
HandshakeOrdering ==
    /\ mainpc \notin {"established", "listening", "stopping"} =>
          /\ fuzz = NoFuzz
          /\ written.data.mtype \notin SessionTypes
          /\ packet = NoPacket /\ tpc = "off" /\ tuser = None
          /\ \A c \in Conns : ustate[c] = "unborn"
          /\ \A f \in Fds : users[f] = None
    /\ mainpc = "established" => \A c \in Conns : ustate[c] = "unborn"
    /\ (written.writer = Tunnel /\ written.data.mtype \in SessionTypes) =>
          /\ fuzz \in Fuzzes
          /\ written.data.via \in Fuzzes

\* After the handshake a connection was accepted, its Request written and an
\* inbound packet dispatched to it.
HandshakeOrderingWitness ==
    /\ mainpc = "listening"
    /\ fuzz \in Fuzzes
    /\ \E c \in Conns :
          /\ ustate[c] = "relaying"
          /\ written.writer = Tunnel /\ written.by = c /\ written.data.mtype = "REQUEST"
          /\ packet.mtype = "RELAYING" /\ packet.dst = user_id[c]

\* C4 Handshake sequence: Hello is sent first; the response is read after it; the
\* HandShake sent next carries the timestamp of that response; the final
\* HandShake is read after that and its fuzz installed; the four packets use the
\* bootstrap cipher, and every packet written or read afterwards uses the
\* installed fuzz and never the bootstrap cipher.
HandshakeSequence ==
    /\ mainpc = "init" =>
          written = NoWrite /\ hello_response = NoHello /\ shake_response = NoShake
    /\ mainpc = "hello_sent" =>
          /\ written.writer = Tunnel /\ written.by = Main
          /\ written.data.mtype = "HELLO" /\ written.data.via = Cipher
          /\ hello_response = NoHello /\ shake_response = NoShake
    /\ mainpc = "shake_sent" =>
          /\ hello_response.mtype = "HELLO" /\ hello_response.via = Cipher
          /\ hello_response.timestamp \in Timestamps
          /\ written.writer = Tunnel /\ written.by = Main
          /\ written.data.mtype = "HANDSHAKE" /\ written.data.via = Cipher
          /\ written.data.body = hello_response.timestamp
          /\ shake_response = NoShake
    /\ mainpc \in {"init", "hello_sent", "shake_sent", "exit1"} =>
          fuzz = NoFuzz /\ packet = NoPacket
    /\ mainpc \in {"established", "listening"} =>
          /\ hello_response.mtype = "HELLO"
          /\ shake_response.mtype = "HANDSHAKE" /\ shake_response.via = Cipher
          /\ fuzz = shake_response.fuzz /\ fuzz \in Fuzzes
          /\ written.writer = Tunnel =>
                IF written.by = Main
                  THEN /\ written.data.mtype = "HANDSHAKE"
                       /\ written.data.body = hello_response.timestamp
                  ELSE written.data.via = fuzz
          /\ packet # NoPacket => packet.via = fuzz

\* The handshake is over, a Relaying frame was written and a packet read, both
\* with the installed fuzz.
HandshakeSequenceWitness ==
    /\ mainpc = "listening"
    /\ hello_response.timestamp = 2
    /\ fuzz = "f2"
    /\ written.writer = Tunnel /\ written.data.mtype = "RELAYING"
    /\ written.data.via = "f2"
    /\ packet.mtype = "REPLY" /\ packet.via = "f2"

\* C5 Close on local end: when a session's relaying loop sees end-of-stream or a
\* reset, a Close with src = session id is written to the tunnel if the session
\* is established at that moment and nothing is written otherwise; and a Close is
\* only ever written by a session that is established, so a session that never
\* received a Reply writes none.
CloseOnLocalEnd ==
    [][/\ \A c \in Conns :
            (ustate[c] = "relaying" /\ ustate'[c] = "closed") =>
               IF remote_id[c] # None
                 THEN Wrote(Tunnel, c, [mtype |-> "CLOSE", src |-> user_id[c],
                                        dst |-> 0, body |-> 0, via |-> fuzz])
                 ELSE written' = written
       /\ (written' # written /\ written'.writer = Tunnel
             /\ written'.data.mtype = "CLOSE") =>
               /\ written'.by \in Conns
               /\ remote_id[written'.by] # None
               /\ written'.data.src = user_id[written'.by]]_vars

\* One session ended established and wrote its Close; another ended without a
\* remote_id.
CloseOnLocalEndWitness ==
    \E c, d \in Conns :
       /\ c # d
       /\ ustate[c] = "closed"
       /\ written = [writer |-> Tunnel, by |-> c, data |-> Close(c)]
       /\ ustate[d] = "closed" /\ remote_id[d] = None

\* C6 Session removal on local end: once a session's task has finished because
\* its local stream ended or erred (IncompleteReadError in the request parse,
\* end-of-stream or reset in the relaying loop), no entry of the session table
\* holds the session.
SessionRemovedOnLocalEnd ==
    \A c \in Conns :
       ustate[c] \in {"closed", "deleted"} => \A f \in Fds : users[f] # c

\* C7 No Close echo: once the tunnel reader has handled an inbound Close for
\* session X (transport aborted, X removed), X's task writes no Close: every
\* Close written to the tunnel is written by a task whose transport was not
\* aborted before that step.
NoCloseEcho ==
    [][(written' # written /\ written'.writer = Tunnel
          /\ written'.data.mtype = "CLOSE") =>
             /\ written'.by \in Conns
             /\ ~aborted[written'.by]]_vars

\* Session X relayed a chunk, an inbound Close for X was handled, and X's task
\* then ran its close path: the last frame on the tunnel is still X's Relaying.
NoCloseEchoWitness ==
    \E x \in Conns :
       /\ ustate[x] = "closed"
       /\ packet.mtype = "CLOSE" /\ packet.src = user_id[x]
       /\ users[user_id[x]] = None
       /\ written.writer = Tunnel /\ written.by = x
       /\ written.data.mtype = "RELAYING"

\* C8 remote_id write-once: remote_id changes only from None, only in the
\* handling of a Reply for that session, and once set it is never overwritten
\* or cleared.
RemoteIdWriteOnce ==
    [][\A c \in Conns :
         remote_id'[c] # remote_id[c] =>
            /\ remote_id[c] = None
            /\ tpc = "reply_drain" /\ tuser = c /\ packet.mtype = "REPLY"
            /\ remote_id'[c] = packet.src]_vars

\* C9 Session id uniqueness: every registered session is registered under its
\* own id, so registered sessions have distinct ids; an id is registered for a
\* new session only when no entry is left under it, so registering never
\* overwrites a record.
SessionIdUniqueness ==
    [][/\ \A f \in Fds : users[f] # None => user_id[users[f]] = f
       /\ \A f \in Fds :
            (users'[f] # users[f] /\ users'[f] # None) => users[f] = None]_vars

FatalExitCodes ==
    [][/\ (mainpc \in {"init", "hello_sent", "shake_sent"}
             /\ mainpc' \notin {"init", "hello_sent", "shake_sent", "established"}) =>
               mainpc' = "exit1"
       /\ mainpc' = "exit1" => mainpc \in {"init", "hello_sent", "shake_sent"}
       /\ (tpc = "done" /\ mainpc' \notin {"established", "listening", "stopping"}) =>
               mainpc' = "exit2"
       /\ tpc = "done" => ENABLED tunnel_done
       /\ mainpc' = "exit2" =>
               (tpc = "done" /\ mainpc \in {"established", "listening", "stopping"})]_vars

\* C12 Non-CONNECT request: the step that handles a request whose command is not
\* CONNECT writes COMMAND_NOT_SUPPORTED to the local connection and nothing to
\* the tunnel, drops the local connection, and leaves no entry for that
\* connection in the session table.
NonConnectRejected ==
    [][\A c \in Conns :
         UserNotConnect(c) =>
            /\ Wrote(c, c, Frame("COMMAND_NOT_SUPPORTED", 0, 0, 0, NoFuzz))
            /\ aborted'[c]
            /\ \A f \in Fds : users'[f] # c]_vars

\* C13 Remote connect failure: a Reply that reports a failure is forwarded to the
\* local connection of the session under its dst, and when its handling is over
\* the session is closed (transport aborted, entry removed, not established); a
\* Request is written only by a session that has not written one yet.
RemoteConnectFailure ==
    [][/\ \A src \in RemoteIds, dst \in Fds :
            (TunnelReplyFailure(src, dst) /\ users[dst] # None) =>
               Wrote(users[dst], Tunnel, Frame("REPLY", src, dst, Failure, fuzz))
       /\ (tpc = "reply_drain" /\ packet.body = Failure /\ tpc' = "read") =>
               /\ aborted'[tuser]
               /\ remote_id'[tuser] = None
               /\ \A f \in Fds : users'[f] # tuser
       /\ \A c \in Conns :
            (written' # written /\ written'.by = c /\ written'.data.mtype = "REQUEST") =>
               (ustate[c] = "request" /\ ustate'[c] = "relaying")]_vars

PerSessionOrdering ==
    [][/\ \A c \in Conns :
            UserData(c) =>
               Wrote(Tunnel, c, Frame("RELAYING", user_id[c], remote_id[c], 1, fuzz))
       /\ \A c \in Conns :
            (written' # written /\ written'.writer = Tunnel /\ written'.by = c) =>
               /\ written'.data.mtype = "RELAYING" => ustate[c] = "relaying"
               /\ written'.data.mtype = "REQUEST" => ustate[c] = "request"
       /\ \A src \in RemoteIds, dst \in Fds :
            (TunnelRelaying(src, dst) /\ users[dst] # None) =>
               Wrote(users[dst], Tunnel, Frame("RELAYING", src, dst, 0, fuzz))]_vars

\* C16 Local error isolation: a reset, an end of stream or a failed write on the
\* local connection of session X changes no other session's table entry,
\* remote_id or connection, and leaves the tunnel reader running and the
\* process alive.
LocalErrorIsolation ==
    [][/\ \A x \in Conns :
            (UserReset(x) \/ UserIncomplete(x) \/ UserEnd(x)) =>
               /\ \A y \in Conns \ {x} :
                     /\ remote_id'[y] = remote_id[y]
                     /\ aborted'[y] = aborted[y]
                     /\ \A f \in Fds : users[f] = y => users'[f] = y
               /\ tpc' = tpc
               /\ mainpc' = mainpc
       /\ (TunnelReplyError \/ \E src \in RemoteIds, dst \in Fds : TunnelRelayingError(src, dst)) =>
               /\ UNCHANGED <<users, remote_id, aborted>>
               /\ tpc' # "done"
               /\ mainpc' = mainpc]_vars

\* C17 Relaying addressing: every Relaying packet written to the tunnel is
\* written by a session, with src the session's id and dst the session's
\* remote_id, which is set; and a remote_id is set only from the src of a Reply
\* whose dst is the session's id.
RelayingAddressing ==
    [][/\ (written' # written /\ written'.writer = Tunnel
             /\ written'.data.mtype = "RELAYING") =>
               /\ written'.by \in Conns
               /\ written'.data.src = user_id[written'.by]
               /\ written'.data.dst = remote_id[written'.by]
               /\ written'.data.dst \in RemoteIds
       /\ \A c \in Conns :
            (UserData(c) /\ remote_id[c] # None) =>
               /\ written'.writer = Tunnel /\ written'.by = c
               /\ written'.data.mtype = "RELAYING"
               /\ written'.data.src = user_id[c]
               /\ written'.data.dst = remote_id[c]
       /\ \A c \in Conns :
            (remote_id'[c] # remote_id[c] /\ remote_id'[c] # None) =>
               /\ packet.mtype = "REPLY"
               /\ packet.dst = user_id[c]
               /\ remote_id'[c] = packet.src]_vars

\* A session with id 1 got remote_id 2 from Reply(src=2, dst=1) and then wrote a
\* Relaying packet with src 1 and dst 2.
RelayingAddressingWitness ==
    /\ ustate[1] = "relaying" /\ user_id[1] = 1 /\ remote_id[1] = 2
    /\ packet.mtype = "REPLY" /\ packet.src = 2 /\ packet.dst = 1
    /\ written.writer = Tunnel /\ written.by = 1
    /\ written.data.mtype = "RELAYING"
    /\ written.data.src = 1 /\ written.data.dst = 2

\* C18 Relay precondition: whenever a session's relaying loop has read a
\* non-empty chunk, the session's remote_id is set, so the assertion holds.
RelayPrecondition ==
    [][\A c \in Conns : UserData(c) => established(c)]_vars

\* C19 Established implies live: a session that is in the table with its
\* remote_id set has a running task and a connection that was not aborted; so
\* no remote_id is left on, or installed on, a session whose local side ended.
EstablishedImpliesLive ==
    \A f \in Fds :
       (users[f] # None /\ remote_id[users[f]] # None) =>
          (Running(users[f]) /\ ~aborted[users[f]])

\* C20 Stop versus tunnel death: after an operator's stop the process does not
\* exit with status 2, and it exits only when the tunnel task and every session
\* task are done; status 2 comes only from a tunnel task that ended while the
\* client was running.
StopVersusTunnelDeath ==
    [][/\ mainpc = "stopping" =>
            /\ mainpc' # "exit2"
            /\ mainpc' # "stopping" => (tpc = "done" /\ \A c \in Conns : ~Running(c))
       /\ mainpc' = "exit2" =>
            (mainpc \in {"established", "listening"} /\ tpc = "done")]_vars
====
